---- MODULE Spec2Model ----
(***************************************************************************)
(* State-machine model of the SBRA group rate adaptation of ns-3.18.1:     *)
(*   src/wifi/model/sbra-wifi-manager.cc  (SbraWifiManager)                *)
(*   src/wifi/model/adhoc-wifi-mac.cc     (AdhocWifiMac)                   *)
(* One node is modelled: its AdhocWifiMac and the SbraWifiManager that the *)
(* MAC feeds with the feedback frames it receives.                         *)
(*                                                                         *)
(* Numbers.  Doubles are modelled by integers:                             *)
(*   - signal strengths are whole dB values, NaN is the sentinel NaN;      *)
(*   - a linear SNR x is held as x * LinScale;                             *)
(*   - a probability p is held as p * PdrScale (per mille).                *)
(***************************************************************************)
EXTENDS Integers, Sequences, FiniteSets, TLC

(***************************************************************************)
(* Bounds of the model                                                     *)
(***************************************************************************)
\* number of peer addresses that send frames to the node
MaxPeers == 2
\* number of group-mode recomputations of a behaviour: a behaviour is explored
\* up to its MaxAdapt-th recomputation
MaxAdapt == 2
\* the feedback messages the node queues are counted up to MaxFeedback
MaxFeedback == 2
\* attribute FeedbackPeriod (m_feedbackPeriod), in ticks of the model clock: a
\* tick is the FeedbackPeriod-th part of the period
FeedbackPeriod == 2

Peers == 1..MaxPeers

\* the peer whose feedback frames the node receives in MacSpec
FeedbackPeer == CHOOSE p \in Peers : \A q \in Peers : p <= q

(***************************************************************************)
(* Number representation                                                   *)
(***************************************************************************)
NaN == 0 - 9999
LinScale == 10
PdrScale == 1000

IsNaN(x) == x = NaN

\* a > b on doubles: every comparison with a NaN operand is false
FGt(a, b) == (~IsNaN(a)) /\ (~IsNaN(b)) /\ a > b

\* a + b on doubles: NaN is absorbing
FAdd(a, b) == IF IsNaN(a) \/ IsNaN(b) THEN NaN ELSE a + b

RECURSIVE TenTo(_)
TenTo(n) == IF n <= 0 THEN 1 ELSE 10 * TenTo(n - 1)

\* std::pow (10.0, db/10.0), scaled by LinScale; db is a multiple of 10, >= -10
Pow10(db) == IF IsNaN(db) THEN NaN ELSE TenTo((db \div 10) + 1)

(***************************************************************************)
(* WifiMode: 0 is the default-constructed (invalid) WifiMode, 1..8 are the *)
(* eight OFDM modes that AddOfdmRate registers.                            *)
(***************************************************************************)
InvalidMode == 0
OfdmModes == 1..8

\* WifiMode::GetDataRate () * 0.000001, truncated to int
DataRateMbps(mode) ==
  IF mode = InvalidMode THEN 0 ELSE <<6, 9, 12, 18, 24, 36, 48, 54>>[mode]

\* WifiMode::GetCodeRate (), as <<numerator, denominator>>
CodeRate(mode) ==
  <<<<1, 2>>, <<3, 4>>, <<1, 2>>, <<3, 4>>, <<1, 2>>, <<3, 4>>, <<2, 3>>, <<3, 4>>>>[mode]

\* WifiMode::GetPhyRate () in Mb/s: the data rate divided by the code rate
PhyRateMbps(mode) == (DataRateMbps(mode) * CodeRate(mode)[2]) \div CodeRate(mode)[1]

\* the sequence of modes AddOfdmRate passes to AddBasicMode, in order
OfdmRateOrder == <<1, 2, 3, 4, 5, 6, 7, 8>>

\* WifiRemoteStationManager::GetDefaultMode (): phy->GetMode (0)
DefaultMode == 1

Range(s) == {s[i] : i \in 1..Len(s)}

\* WifiRemoteStationManager::AddBasicMode: append unless already present
AddBasicMode(set, mode) == IF mode \in Range(set) THEN set ELSE Append(set, mode)

RECURSIVE AddAll(_, _, _)
AddAll(set, modes, i) ==
  IF i > Len(modes) THEN set ELSE AddAll(AddBasicMode(set, modes[i]), modes, i + 1)

\* SbraWifiManager::AddOfdmRate
AddOfdmRate(set) == AddAll(set, OfdmRateOrder, 1)

(***************************************************************************)
(* Feedback samples (struct rxInfo)                                        *)
(***************************************************************************)
RssiValues == {0, 10, 20}

\* the samples a feedback frame can carry
FeedbackInfos ==
  {[Rssi |-> r, Snr |-> 30 - r, LossPacket |-> r \div 10, TotalPacket |-> 10] : r \in RssiValues}

NaNInfo == [Rssi |-> NaN, Snr |-> NaN, LossPacket |-> 0, TotalPacket |-> 0]

\* what an rxInfo that was never assigned can hold
UninitInfos == FeedbackInfos \cup {NaNInfo}

\* what an int that was never assigned can hold
UninitMcs == {0, 5}

(***************************************************************************)
(* Delivery Model: WifiPhy::CalculatePdr (mode, snr, nbits).  An external   *)
(* pure function; the model carries a few concrete curves, and the curve   *)
(* of a behaviour is fixed at construction (variable phyCurve).            *)
(***************************************************************************)
TestFrameBits == 1086 * 8

PhyCurves == 1..2

\* success probability (per mille) of each OFDM mode, by curve and linear SNR
\* (scaled), for frames longer than TestFrameBits
PdrLong(curve, lin) ==
  CASE curve = 1 /\ lin = 100  -> <<1000, 1000, 1000, 999, 500, 0, 0, 0>>
    [] curve = 1 /\ lin = 1000 -> <<1000, 1000, 1000, 1000, 1000, 1000, 999, 500>>
    [] curve = 2 /\ lin = 100  -> <<0, 0, 0, 0, 0, 0, 0, 0>>
    [] curve = 2 /\ lin = 1000 -> <<950, 990, 1000, 900, 0, 400, 0, 0>>
    [] OTHER -> <<0, 0, 0, 0, 0, 0, 0, 0>>

\* the same for frames of at most TestFrameBits
PdrShort(curve, lin) ==
  CASE curve = 1 /\ lin = 100  -> <<1000, 1000, 1000, 1000, 600, 100, 0, 0>>
    [] curve = 1 /\ lin = 1000 -> <<1000, 1000, 1000, 1000, 1000, 1000, 1000, 600>>
    [] curve = 2 /\ lin = 100  -> <<0, 0, 0, 0, 0, 0, 0, 0>>
    [] curve = 2 /\ lin = 1000 -> <<0, 1000, 0, 500, 0, 250, 0, 0>>
    [] OTHER -> <<0, 0, 0, 0, 0, 0, 0, 0>>

CalculatePdr(curve, mode, lin, nbits) ==
  IF nbits > TestFrameBits THEN PdrLong(curve, lin)[mode] ELSE PdrShort(curve, lin)[mode]

(***************************************************************************)
(* Configuration (attributes)                                              *)
(***************************************************************************)
\* attribute Type, an unchecked uint32_t: 0 and 1 are the two algorithms
TypeValues == {0, 1, 2}
\* attribute PerThreshold (per mille): the default 0.001, then 0.6 and 2.0
DefaultPer == 1
PerValues == {DefaultPer, 600, 2000}

\* the configurations <<Type, PerThreshold, curve>> of the engine: each
\* algorithm under every value of the parameters it reads
Configs ==
  {<<0, p, c>> : p \in PerValues, c \in PhyCurves}
    \cup {<<1, DefaultPer, c>> : c \in PhyCurves}
    \cup {<<t, DefaultPer, 1>> : t \in TypeValues \ {0, 1}}

\* attribute QosSupported of the MAC
QosValues == BOOLEAN

\* what QosUtilsGetTidForPacket can return: a tagged TID 0..7, or 8 for a
\* packet without a QoS tag
TidValues == {0, 3, 6, 7, 8}

VARIABLES
  \* SbraWifiManager
  m_addBasicMode, m_bssBasicRateSet, m_infos, m_GroupTxMode, m_GroupTxMcs,
  m_minSnr, m_sum_min_snr, m_sum_tx_mode, m_sum_tx_mcs, m_num,
  m_type, m_per, phyCurve,
  \* SbraWifiRemoteStation::m_lastSnr of the station of each peer (a linear
  \* SNR); a station is created with m_lastSnr = 0.0 when its peer is first
  \* looked up
  m_lastSnr,
  \* AdhocWifiMac
  m_initialize, m_srcAddress, m_qosSupported,
  \* collaborators of the MAC: the stations the station manager knows, whether
  \* MacLow got its EWMA parameters, the pending SendFeedback events of the
  \* simulator (the ticks that remain until each fires, in scheduling order)
  stations, lowParamsSet, timers,
  \* history: the last handler that ran with what it queued, the number of
  \* recomputations, the number of feedback messages queued and their
  \* destinations, the sender of the first group-addressed data frame, the
  \* addresses passed to UpdateInfo, the ticks since the last feedback message
  \* was queued (counted up to FeedbackPeriod + 1), the SNR of the data or RTS
  \* frame of the last success report for each peer
  lastCall, nAdapt, nFeedback, fbDests, firstGroupFrom, updatedAddrs, sinceFeedback,
  lastOkSnr,
  \* the number of minimum signal strengths added to m_sum_min_snr, the number
  \* of data rates (and code indexes) added to m_sum_tx_mode (and m_sum_tx_mcs)
  nMinSnrAdded, nTxAdded

managerVars == <<m_addBasicMode, m_bssBasicRateSet, m_infos, m_GroupTxMode, m_GroupTxMcs,
                 m_minSnr, m_sum_min_snr, m_sum_tx_mode, m_sum_tx_mcs, m_num,
                 m_type, m_per, phyCurve>>
macVars == <<m_initialize, m_srcAddress, m_qosSupported, stations, lowParamsSet, timers>>
historyVars == <<lastCall, nAdapt, nFeedback, fbDests, firstGroupFrom, updatedAddrs,
                 sinceFeedback, lastOkSnr, nMinSnrAdded, nTxAdded>>
stationVars == <<m_lastSnr, lastOkSnr>>
statsHistory == <<nMinSnrAdded, nTxAdded>>
vars == <<managerVars, m_lastSnr, macVars, historyVars>>

\* Mac48Address (): the all-zero address
NoAddress == 0

\* the record of a handler run: the handler, the peer address of the frame or
\* packet, the queue it handed a frame to ("none" if none), the TID of that
\* frame's header, and the rxInfo the handler carried: the one it copied from
\* a received feedback header to m_rxInfoSet, or the one it copied from
\* m_rxInfoGet to the feedback header it queued.  m_rxInfoSet and m_rxInfoGet
\* are written and read within one handler run only, they are no state of
\* their own
Call(op, addr, queue, tid, info) ==
  [op |-> op, addr |-> addr, queue |-> queue, tid |-> tid, info |-> info]
NoInfo == [Rssi |-> 0, Snr |-> 0, LossPacket |-> 0, TotalPacket |-> 0]
NoCall == Call("none", NoAddress, "none", 0, NoInfo)

(***************************************************************************)
(* SbraWifiManager::UpdateInfo                                             *)
(***************************************************************************)
\* index of the first entry of infos whose address is addr, 0 if there is none
RECURSIVE FindInfo(_, _, _)
FindInfo(infos, addr, i) ==
  IF i > Len(infos) THEN 0
  ELSE IF infos[i].addr = addr THEN i
  ELSE FindInfo(infos, addr, i + 1)

\* the StaInfo pushed for a new address: its info member is never assigned,
\* so it holds whatever the stack held (uninit)
NewStaInfo(addr, info, uninit) == [addr |-> addr, info |-> uninit]

\* UpdateInfo whose scan never finds the address
UpdateInfo_NeverFound(infos, addr, info, uninit) ==
  Append(infos, NewStaInfo(addr, info, uninit))

UpdateInfo(infos, addr, info, uninit) ==
  LET i == FindInfo(infos, addr, 1) IN
    IF i # 0 THEN [infos EXCEPT ![i].info = info]
    ELSE Append(infos, NewStaInfo(addr, info, uninit))

(***************************************************************************)
(* SbraWifiManager::GroupRateAdaptation                                    *)
(***************************************************************************)
\* the minimum scan of lines 177-184
RECURSIVE MinRssi(_, _, _)
MinRssi(infos, m, cur) ==
  IF m > Len(infos) THEN cur
  ELSE MinRssi(infos, m + 1, IF FGt(cur, infos[m].info.Rssi) THEN infos[m].info.Rssi ELSE cur)

\* coded bits per OFDM symbol, from the PHY rate (lines 211-219)
OfdmBits(mode) ==
  CASE PhyRateMbps(mode) = 12 -> 48
    [] PhyRateMbps(mode) = 24 -> 96
    [] PhyRateMbps(mode) = 48 -> 192
    [] PhyRateMbps(mode) = 72 -> 288
    [] OTHER -> 48

\* nbits of lines 221-223: ((uint32_t) (8534 / coderate / ofdmbits) + 1) * ofdmbits
NBits(mode) ==
  LET databits == 1000
      payload == (databits + 64) * 8 + 22
      nSymbols == (payload * CodeRate(mode)[2]) \div (CodeRate(mode)[1] * OfdmBits(mode))
  IN (nSymbols + 1) * OfdmBits(mode)

\* the loop of lines 197-232 replacing the candidate only by a strictly
\* smaller loss probability
RECURSIVE Type0Scan_KeepBest(_, _, _, _, _, _, _)
Type0Scan_KeepBest(basic, curve, lin, per, k, mode, Per) ==
  IF k > Len(basic) THEN <<mode, Per>>
  ELSE LET Pdr == CalculatePdr(curve, basic[k], lin, NBits(basic[k]))
           tempPer == PdrScale - Pdr
       IN IF tempPer < per /\ tempPer < Per
          THEN Type0Scan_KeepBest(basic, curve, lin, per, k + 1, basic[k], tempPer)
          ELSE Type0Scan_KeepBest(basic, curve, lin, per, k + 1, mode, Per)

\* the loop of lines 197-232; the result is <<m_GroupTxMode, Per>>
RECURSIVE Type0Scan(_, _, _, _, _, _, _)
Type0Scan(basic, curve, lin, per, k, mode, Per) ==
  IF k > Len(basic) THEN <<mode, Per>>
  ELSE LET Pdr == CalculatePdr(curve, basic[k], lin, NBits(basic[k]))
           tempPer == PdrScale - Pdr
       IN IF tempPer < per
          THEN Type0Scan(basic, curve, lin, per, k + 1, basic[k], tempPer)
          ELSE Type0Scan(basic, curve, lin, per, k + 1, mode, Per)

\* lines 196-236 without the fallback of lines 235-236
Type0Select_NoFallback(basic, curve, lin, per, oldMode) ==
  Type0Scan(basic, curve, lin, per, 1, oldMode, PdrScale)[1]

\* lines 196-236
Type0Select(basic, curve, lin, per, oldMode) ==
  LET r == Type0Scan(basic, curve, lin, per, 1, oldMode, PdrScale) IN
    IF r[2] = PdrScale THEN basic[1] ELSE r[1]

\* the switch of lines 241-259: no case matches a rate outside the eight
McsOfRate(rate, oldMcs) ==
  CASE rate = 6 -> 0 [] rate = 9 -> 1 [] rate = 12 -> 2 [] rate = 18 -> 3
    [] rate = 24 -> 4 [] rate = 36 -> 5 [] rate = 48 -> 6 [] rate = 54 -> 7
    [] OTHER -> oldMcs

\* the loop of lines 274-287 with >= for > at line 282
RECURSIVE Type1Scan_LastWins(_, _, _, _, _, _)
Type1Scan_LastWins(basic, curve, lin, k, mode, maxPdrRate) ==
  IF k > Len(basic) THEN <<mode, maxPdrRate>>
  ELSE LET Pdr == CalculatePdr(curve, basic[k], lin, TestFrameBits)
           PdrRate == Pdr * DataRateMbps(basic[k])
       IN IF PdrRate >= maxPdrRate
          THEN Type1Scan_LastWins(basic, curve, lin, k + 1, basic[k], PdrRate)
          ELSE Type1Scan_LastWins(basic, curve, lin, k + 1, mode, maxPdrRate)

\* the loop of lines 274-287; the result is <<m_GroupTxMode, maxPdrRate>>
RECURSIVE Type1Scan(_, _, _, _, _, _)
Type1Scan(basic, curve, lin, k, mode, maxPdrRate) ==
  IF k > Len(basic) THEN <<mode, maxPdrRate>>
  ELSE LET Pdr == CalculatePdr(curve, basic[k], lin, TestFrameBits)
           PdrRate == Pdr * DataRateMbps(basic[k])
       IN IF PdrRate > maxPdrRate
          THEN Type1Scan(basic, curve, lin, k + 1, basic[k], PdrRate)
          ELSE Type1Scan(basic, curve, lin, k + 1, mode, maxPdrRate)

\* lines 271-289
Type1Select(basic, curve, lin, oldMode) ==
  LET r == Type1Scan(basic, curve, lin, 1, oldMode, 0) IN
    IF r[2] = 0 THEN basic[1] ELSE r[1]

\* SelectWithSamples without the else branch of line 295-296
SelectWithSamples_NoElse(basic, curve, type, per, lin, oldMode) ==
  IF FGt(lin, LinScale)
  THEN CASE type = 0 -> Type0Select(basic, curve, lin, per, oldMode)
         [] type = 1 -> Type1Select(basic, curve, lin, oldMode)
         [] OTHER -> oldMode
  ELSE oldMode

\* the mode selected at lines 190-296 when samples exist
SelectWithSamples(basic, curve, type, per, lin, oldMode) ==
  IF FGt(lin, LinScale)
  THEN CASE type = 0 -> Type0Select(basic, curve, lin, per, oldMode)
         [] type = 1 -> Type1Select(basic, curve, lin, oldMode)
         [] OTHER -> oldMode
  ELSE basic[1]

\* SelectGroupMode without the assignment of line 173
SelectGroupMode_KeepWhenEmpty(basic, vsize, curve, type, per, lin, oldMode) ==
  IF vsize = 0 THEN oldMode
  ELSE SelectWithSamples(basic, curve, type, per, lin, oldMode)

\* the mode GroupRateAdaptation leaves in m_GroupTxMode and returns (lines 171-298)
SelectGroupMode(basic, vsize, curve, type, per, lin, oldMode) ==
  IF vsize = 0 THEN basic[1]
  ELSE SelectWithSamples(basic, curve, type, per, lin, oldMode)

\* the whole of GroupRateAdaptation, as the new values of the fields it writes
GroupRateAdaptation ==
  LET basic == IF m_addBasicMode = FALSE THEN AddOfdmRate(m_bssBasicRateSet)
               ELSE m_bssBasicRateSet
      vsize == Len(m_infos)
      minDb == MinRssi(m_infos, 1, m_infos[1].info.Rssi)
      lin == Pow10(minDb)
      mode == SelectGroupMode(basic, vsize, phyCurve, m_type, m_per, lin, m_GroupTxMode)
      type0 == vsize # 0 /\ FGt(lin, LinScale) /\ m_type = 0
      mcs == IF type0 THEN McsOfRate(DataRateMbps(mode), m_GroupTxMcs) ELSE m_GroupTxMcs
  IN [basic |-> basic,
      mode |-> mode,
      mcs |-> mcs,
      minSnr |-> IF vsize = 0 THEN m_minSnr ELSE lin,
      sum_min_snr |-> IF vsize = 0 THEN m_sum_min_snr ELSE FAdd(m_sum_min_snr, minDb),
      sum_tx_mode |-> IF type0 THEN m_sum_tx_mode + DataRateMbps(mode) ELSE m_sum_tx_mode,
      sum_tx_mcs |-> IF type0 THEN m_sum_tx_mcs + mcs ELSE m_sum_tx_mcs,
      num |-> IF type0 THEN m_num + 1 ELSE m_num,
      addsMinSnr |-> vsize # 0,
      addsTx |-> type0]

\* DoGroupRateAdaptation: one recomputation of the group mode
DoGroupRateAdaptation ==
  /\ nAdapt < MaxAdapt
  /\ \E r \in {GroupRateAdaptation} :
       /\ m_addBasicMode' = TRUE
       /\ m_bssBasicRateSet' = r.basic
       /\ m_GroupTxMode' = r.mode
       /\ m_GroupTxMcs' = r.mcs
       /\ m_minSnr' = r.minSnr
       /\ m_sum_min_snr' = r.sum_min_snr
       /\ m_sum_tx_mode' = r.sum_tx_mode
       /\ m_sum_tx_mcs' = r.sum_tx_mcs
       /\ m_num' = r.num
       /\ nMinSnrAdded' = IF r.addsMinSnr THEN nMinSnrAdded + 1 ELSE nMinSnrAdded
       /\ nTxAdded' = IF r.addsTx THEN nTxAdded + 1 ELSE nTxAdded
  /\ nAdapt' = nAdapt + 1
  /\ lastCall' = Call("GroupRateAdaptation", NoAddress, "none", 0, NoInfo)
  /\ UNCHANGED <<m_infos, m_type, m_per, phyCurve>>
  /\ UNCHANGED <<macVars, nFeedback, fbDests, firstGroupFrom, updatedAddrs, sinceFeedback>>
  /\ UNCHANGED stationVars

(***************************************************************************)
(* SbraWifiManager: the reports of the frame exchanges with a station and  *)
(* the mode selection for a transmission to it                             *)
(***************************************************************************)
\* the linear SNRs (scaled by LinScale) a report can carry
StaSnrValues == {0, 110, 1000}

\* m_thresholds: SetupPhy stores phy->CalculateSnr (mode, m_ber) for every mode
\* of the PHY (lines 68-79); the linear SNR (scaled) by PHY and mode
SnrThresholds(curve) ==
  IF curve = 1 THEN <<20, 50, 90, 110, 150, 180, 220, 250>>
  ELSE <<20, 110, 50, 110, 150, 300, 220, 300>>

\* GetSnrThreshold (lines 81-93), for a mode of the PHY
GetSnrThreshold(curve, mode) == SnrThresholds(curve)[mode]

\* the supported modes (GetNSupported, GetSupported) a station can have
SupportedSets == {<<>>, <<DefaultMode>>, OfdmRateOrder, <<7, 4, 2, 6>>, <<3, 2, 5>>}

\* the record of a run of DoGetDataTxVector or DoGetRtsTxVector: the mode set
\* it scanned and the mode of the WifiTxVector it returned
TxCall(op, addr, scanned, mode) ==
  [op |-> op, addr |-> addr, queue |-> "none", tid |-> 0, info |-> NoInfo,
   scanned |-> scanned, mode |-> mode]

\* a report handler with an empty body
EmptyReport(op, st) ==
  /\ lastCall' = Call(op, st, "none", 0, NoInfo)
  /\ UNCHANGED <<managerVars, m_lastSnr, macVars>>
  /\ UNCHANGED <<nAdapt, nFeedback, fbDests, firstGroupFrom, updatedAddrs, sinceFeedback,
                 lastOkSnr>>
  /\ UNCHANGED statsHistory

DoReportRxOk(st, rxSnr) == EmptyReport("DoReportRxOk", st)
DoReportRtsFailed(st) == EmptyReport("DoReportRtsFailed", st)
DoReportDataFailed(st) == EmptyReport("DoReportDataFailed", st)
DoReportFinalRtsFailed(st) == EmptyReport("DoReportFinalRtsFailed", st)
DoReportFinalDataFailed(st) == EmptyReport("DoReportFinalDataFailed", st)

\* DoReportRtsOk storing ctsSnr
DoReportRtsOk_StoresCts(st, ctsSnr, rtsSnr) ==
  /\ m_lastSnr' = [m_lastSnr EXCEPT ![st] = ctsSnr]
  /\ lastOkSnr' = [lastOkSnr EXCEPT ![st] = rtsSnr]
  /\ lastCall' = Call("DoReportRtsOk", st, "none", 0, NoInfo)
  /\ UNCHANGED <<managerVars, macVars>>
  /\ UNCHANGED <<nAdapt, nFeedback, fbDests, firstGroupFrom, updatedAddrs, sinceFeedback>>
  /\ UNCHANGED statsHistory

\* DoReportRtsOk (lines 123-129)
DoReportRtsOk(st, ctsSnr, rtsSnr) ==
  /\ m_lastSnr' = [m_lastSnr EXCEPT ![st] = rtsSnr]
  /\ lastOkSnr' = [lastOkSnr EXCEPT ![st] = rtsSnr]
  /\ lastCall' = Call("DoReportRtsOk", st, "none", 0, NoInfo)
  /\ UNCHANGED <<managerVars, macVars>>
  /\ UNCHANGED <<nAdapt, nFeedback, fbDests, firstGroupFrom, updatedAddrs, sinceFeedback>>
  /\ UNCHANGED statsHistory

\* DoReportDataOk (lines 130-136)
DoReportDataOk(st, ackSnr, dataSnr) ==
  /\ m_lastSnr' = [m_lastSnr EXCEPT ![st] = dataSnr]
  /\ lastOkSnr' = [lastOkSnr EXCEPT ![st] = dataSnr]
  /\ lastCall' = Call("DoReportDataOk", st, "none", 0, NoInfo)
  /\ UNCHANGED <<managerVars, macVars>>
  /\ UNCHANGED <<nAdapt, nFeedback, fbDests, firstGroupFrom, updatedAddrs, sinceFeedback>>
  /\ UNCHANGED statsHistory

\* the loop of lines 314-327 with >= for > at line 322
RECURSIVE DataTxScan_LastWins(_, _, _, _, _, _)
DataTxScan_LastWins(supported, curve, lastSnr, i, maxMode, maxFdrRate) ==
  IF i > Len(supported) THEN maxMode
  ELSE LET Fdr == CalculatePdr(curve, supported[i], lastSnr, TestFrameBits)
           FdrRate == Fdr * DataRateMbps(supported[i])
       IN IF FdrRate >= maxFdrRate
          THEN DataTxScan_LastWins(supported, curve, lastSnr, i + 1, supported[i], FdrRate)
          ELSE DataTxScan_LastWins(supported, curve, lastSnr, i + 1, maxMode, maxFdrRate)

\* the loop of lines 314-327; the result is maxMode
RECURSIVE DataTxScan(_, _, _, _, _, _)
DataTxScan(supported, curve, lastSnr, i, maxMode, maxFdrRate) ==
  IF i > Len(supported) THEN maxMode
  ELSE LET Fdr == CalculatePdr(curve, supported[i], lastSnr, TestFrameBits)
           FdrRate == Fdr * DataRateMbps(supported[i])
       IN IF FdrRate > maxFdrRate
          THEN DataTxScan(supported, curve, lastSnr, i + 1, supported[i], FdrRate)
          ELSE DataTxScan(supported, curve, lastSnr, i + 1, maxMode, maxFdrRate)

\* DoGetDataTxVector (lines 300-329) for a station whose supported modes are
\* supported
DoGetDataTxVector(st, supported) ==
  /\ lastCall' = TxCall("DoGetDataTxVector", st, supported,
                        DataTxScan(supported, phyCurve, m_lastSnr[st], 1, DefaultMode, 0))
  /\ UNCHANGED <<managerVars, m_lastSnr, macVars>>
  /\ UNCHANGED <<nAdapt, nFeedback, fbDests, firstGroupFrom, updatedAddrs, sinceFeedback,
                 lastOkSnr>>
  /\ UNCHANGED statsHistory

\* the loop of lines 340-350 with <= for < at line 345
RECURSIVE RtsTxScan_NotStrict(_, _, _, _, _, _)
RtsTxScan_NotStrict(basic, curve, lastSnr, i, maxMode, maxThreshold) ==
  IF i > Len(basic) THEN maxMode
  ELSE LET threshold == GetSnrThreshold(curve, basic[i])
       IN IF threshold > maxThreshold /\ threshold <= lastSnr
          THEN RtsTxScan_NotStrict(basic, curve, lastSnr, i + 1, basic[i], threshold)
          ELSE RtsTxScan_NotStrict(basic, curve, lastSnr, i + 1, maxMode, maxThreshold)

\* the loop of lines 340-350; the result is maxMode
RECURSIVE RtsTxScan(_, _, _, _, _, _)
RtsTxScan(basic, curve, lastSnr, i, maxMode, maxThreshold) ==
  IF i > Len(basic) THEN maxMode
  ELSE LET threshold == GetSnrThreshold(curve, basic[i])
       IN IF threshold > maxThreshold /\ threshold < lastSnr
          THEN RtsTxScan(basic, curve, lastSnr, i + 1, basic[i], threshold)
          ELSE RtsTxScan(basic, curve, lastSnr, i + 1, maxMode, maxThreshold)

\* DoGetRtsTxVector (lines 331-352)
DoGetRtsTxVector(st) ==
  /\ lastCall' = TxCall("DoGetRtsTxVector", st, m_bssBasicRateSet,
                        RtsTxScan(m_bssBasicRateSet, phyCurve, m_lastSnr[st], 1, DefaultMode, 0))
  /\ UNCHANGED <<managerVars, m_lastSnr, macVars>>
  /\ UNCHANGED <<nAdapt, nFeedback, fbDests, firstGroupFrom, updatedAddrs, sinceFeedback,
                 lastOkSnr>>
  /\ UNCHANGED statsHistory

(***************************************************************************)
(* AdhocWifiMac                                                            *)
(***************************************************************************)
\* QosUtilsMapTidToAc
QosUtilsMapTidToAc(tid) ==
  CASE tid \in {0, 3} -> "AC_BE"
    [] tid \in {1, 2} -> "AC_BK"
    [] tid \in {4, 5} -> "AC_VI"
    [] tid \in {6, 7} -> "AC_VO"
    [] OTHER -> "AC_UNDEF"

\* the TID written to the QoS header (lines 168-176)
HeaderTid(tid) == IF tid >= 7 THEN 0 ELSE tid

\* Enqueue (packet, to); tid is the value of QosUtilsGetTidForPacket (packet)
Enqueue(to, tid) ==
  /\ stations' = stations \cup {to}
  /\ IF m_initialize = FALSE
     THEN m_initialize' = TRUE /\ lowParamsSet' = TRUE
     ELSE UNCHANGED <<m_initialize, lowParamsSet>>
  /\ lastCall' = IF m_qosSupported
                 THEN Call("Enqueue", to, QosUtilsMapTidToAc(HeaderTid(tid)), HeaderTid(tid), NoInfo)
                 ELSE Call("Enqueue", to, "dca", 0, NoInfo)
  /\ UNCHANGED <<m_srcAddress, m_qosSupported, timers>>
  /\ UNCHANGED <<managerVars, nAdapt, nFeedback, fbDests, firstGroupFrom, updatedAddrs,
                 sinceFeedback>>
  /\ UNCHANGED stationVars
  /\ UNCHANGED statsHistory

\* what MacLow::GetRxInfo can report
LowRxInfos == FeedbackInfos

\* SendFeedbackBody without the Simulator::Schedule of line 303
SendFeedbackBody_NoRearm(op, dest, pending, info) ==
  /\ lastCall' = Call(op, dest, "dca", 0, info)
  /\ nFeedback' = IF nFeedback < MaxFeedback THEN nFeedback + 1 ELSE nFeedback
  /\ fbDests' = fbDests \cup {dest}
  /\ timers' = pending
  /\ sinceFeedback' = 0

\* the body of SendFeedback (lines 278-304): one feedback frame, carrying the
\* rxInfo that MacLow::GetRxInfo reports, goes to m_dca for dest
\* (m_srcAddress), and one SendFeedback event is scheduled for
\* m_feedbackPeriod later; pending are the events that remain pending when
\* the body starts
SendFeedbackBody(op, dest, pending, info) ==
  /\ lastCall' = Call(op, dest, "dca", 0, info)
  /\ nFeedback' = IF nFeedback < MaxFeedback THEN nFeedback + 1 ELSE nFeedback
  /\ fbDests' = fbDests \cup {dest}
  /\ timers' = Append(pending, FeedbackPeriod)
  /\ sinceFeedback' = 0

\* ReceiveData without the test of m_initialize at line 236
ReceiveData_Restart(from, toGroup) ==
  /\ IF toGroup
     THEN /\ m_srcAddress' = from
          /\ m_initialize' = TRUE
          /\ \E info \in LowRxInfos : SendFeedbackBody("ReceiveGroup", from, timers, info)
     ELSE /\ lastCall' = Call("ReceiveUnicast", from, "none", 0, NoInfo)
          /\ UNCHANGED <<m_srcAddress, m_initialize, nFeedback, fbDests, timers,
                         sinceFeedback>>
  /\ firstGroupFrom' = IF toGroup /\ firstGroupFrom = NoAddress THEN from ELSE firstGroupFrom
  /\ UNCHANGED <<m_qosSupported, stations, lowParamsSet>>
  /\ UNCHANGED <<managerVars, nAdapt, updatedAddrs>>
  /\ UNCHANGED stationVars
  /\ UNCHANGED statsHistory

\* ReceiveData with the assignment of line 238 moved before the test of line 236
ReceiveData_Retarget(from, toGroup) ==
  /\ m_srcAddress' = IF toGroup THEN from ELSE m_srcAddress
  /\ IF toGroup /\ m_initialize = FALSE
     THEN /\ m_initialize' = TRUE
          /\ \E info \in LowRxInfos : SendFeedbackBody("ReceiveGroup", from, timers, info)
     ELSE /\ lastCall' = Call(IF toGroup THEN "ReceiveGroup" ELSE "ReceiveUnicast",
                              from, "none", 0, NoInfo)
          /\ UNCHANGED <<m_initialize, nFeedback, fbDests, timers, sinceFeedback>>
  /\ firstGroupFrom' = IF toGroup /\ firstGroupFrom = NoAddress THEN from ELSE firstGroupFrom
  /\ UNCHANGED <<m_qosSupported, stations, lowParamsSet>>
  /\ UNCHANGED <<managerVars, nAdapt, updatedAddrs>>
  /\ UNCHANGED stationVars
  /\ UNCHANGED statsHistory

\* Receive of a data frame that is not a QoS A-MSDU (lines 227-249)
ReceiveData(from, toGroup) ==
  /\ IF toGroup /\ m_initialize = FALSE
     THEN /\ m_srcAddress' = from
          /\ m_initialize' = TRUE
          /\ \E info \in LowRxInfos : SendFeedbackBody("ReceiveGroup", from, timers, info)
     ELSE /\ lastCall' = Call(IF toGroup THEN "ReceiveGroup" ELSE "ReceiveUnicast",
                              from, "none", 0, NoInfo)
          /\ UNCHANGED <<m_srcAddress, m_initialize, nFeedback, fbDests, timers,
                         sinceFeedback>>
  /\ firstGroupFrom' = IF toGroup /\ firstGroupFrom = NoAddress THEN from ELSE firstGroupFrom
  /\ UNCHANGED <<m_qosSupported, stations, lowParamsSet>>
  /\ UNCHANGED <<managerVars, nAdapt, updatedAddrs>>
  /\ UNCHANGED stationVars
  /\ UNCHANGED statsHistory

\* Receive of a QoS A-MSDU data frame (lines 229-233): forwarded, nothing kept
ReceiveAmsdu(from) ==
  /\ lastCall' = Call("ReceiveAmsdu", from, "none", 0, NoInfo)
  /\ UNCHANGED <<managerVars, macVars, nAdapt, nFeedback, fbDests, firstGroupFrom, updatedAddrs,
                 sinceFeedback>>
  /\ UNCHANGED stationVars
  /\ UNCHANGED statsHistory

\* Receive of a feedback frame (lines 250-268): the four fields of the header
\* are copied and handed to UpdateInfo; uninit is what the
\* unassigned info of a new entry holds (it is not used for a known address)
ReceiveFeedback(from, fb) ==
  /\ nAdapt < MaxAdapt
  /\ \E uninit \in IF FindInfo(m_infos, from, 1) = 0 THEN UninitInfos ELSE {NaNInfo} :
       m_infos' = UpdateInfo(m_infos, from, fb, uninit)
  /\ lastCall' = Call("UpdateInfo", from, "none", 0, fb)
  /\ updatedAddrs' = updatedAddrs \cup {from}
  /\ UNCHANGED <<m_addBasicMode, m_bssBasicRateSet, m_GroupTxMode, m_GroupTxMcs,
                 m_minSnr, m_sum_min_snr, m_sum_tx_mode, m_sum_tx_mcs, m_num,
                 m_type, m_per, phyCurve>>
  /\ UNCHANGED macVars
  /\ UNCHANGED <<nAdapt, nFeedback, fbDests, firstGroupFrom, sinceFeedback>>
  /\ UNCHANGED stationVars
  /\ UNCHANGED statsHistory

\* the size of the feedback layout: two 8-byte floats and two 4-byte integers
FeedbackHeaderSize == 8 + 8 + 4 + 4

\* payload lengths below the size of the feedback layout
ShortLengths == {0, FeedbackHeaderSize - 1}

\* FeedbackHeader::Deserialize, reached through packet->RemoveHeader (fbhdr)
\* (line 255): the fields of the header after decoding a payload of len bytes
\* that was encoded from sent, where held is what the fields of the freshly
\* constructed header hold; decoding a short payload fails and assigns none
Deserialize(len, sent, held) == IF len < FeedbackHeaderSize THEN held ELSE sent

\* Receive of a feedback frame whose payload has only len bytes (lines
\* 250-268): the result of RemoveHeader is not looked at, the four getters
\* are read and handed to UpdateInfo as for any feedback frame
ReceiveShortFeedback(from, len) ==
  /\ nAdapt < MaxAdapt
  /\ \E held \in UninitInfos :
       /\ \E uninit \in IF FindInfo(m_infos, from, 1) = 0 THEN UninitInfos ELSE {NaNInfo} :
            m_infos' = UpdateInfo(m_infos, from, Deserialize(len, held, held), uninit)
       /\ lastCall' = Call("ReceiveShortFeedback", from, "none", 0,
                           Deserialize(len, held, held))
  /\ updatedAddrs' = updatedAddrs \cup {from}
  /\ UNCHANGED <<m_addBasicMode, m_bssBasicRateSet, m_GroupTxMode, m_GroupTxMcs,
                 m_minSnr, m_sum_min_snr, m_sum_tx_mode, m_sum_tx_mcs, m_num,
                 m_type, m_per, phyCurve>>
  /\ UNCHANGED macVars
  /\ UNCHANGED <<nAdapt, nFeedback, fbDests, firstGroupFrom, sinceFeedback>>
  /\ UNCHANGED stationVars
  /\ UNCHANGED statsHistory

\* the earliest pending SendFeedback event is due and the simulator runs it
SendFeedback ==
  /\ timers # <<>> /\ timers[1] = 0
  /\ \E info \in LowRxInfos :
       SendFeedbackBody("SendFeedback", m_srcAddress, Tail(timers), info)
  /\ UNCHANGED <<m_initialize, m_srcAddress, m_qosSupported, stations, lowParamsSet>>
  /\ UNCHANGED <<managerVars, nAdapt, firstGroupFrom, updatedAddrs>>
  /\ UNCHANGED stationVars
  /\ UNCHANGED statsHistory

\* the simulator advances the time by one tick: no pending event is due
Tick ==
  /\ IF timers = <<>> THEN TRUE ELSE timers[1] > 0
  /\ timers' = [i \in 1..Len(timers) |-> timers[i] - 1]
  /\ sinceFeedback' = IF sinceFeedback <= FeedbackPeriod THEN sinceFeedback + 1
                      ELSE sinceFeedback
  /\ UNCHANGED <<m_initialize, m_srcAddress, m_qosSupported, stations, lowParamsSet>>
  /\ UNCHANGED <<managerVars, lastCall, nAdapt, nFeedback, fbDests, firstGroupFrom,
                 updatedAddrs>>
  /\ UNCHANGED stationVars
  /\ UNCHANGED statsHistory

(***************************************************************************)
(* Construction                                                            *)
(***************************************************************************)
\* SbraWifiManager::SbraWifiManager and the attribute defaults
InitManager ==
  /\ m_addBasicMode = FALSE
  /\ m_bssBasicRateSet = <<DefaultMode>>
  /\ m_infos = <<>>
  /\ m_GroupTxMode = InvalidMode
  /\ m_GroupTxMcs \in UninitMcs
  /\ m_minSnr = NaN
  /\ m_sum_min_snr = 0
  /\ m_sum_tx_mode = 0
  /\ m_sum_tx_mcs = 0
  /\ m_num = 0

\* AdhocWifiMac::AdhocWifiMac
InitMac ==
  /\ m_initialize = FALSE
  /\ m_srcAddress = NoAddress
  /\ stations = {}
  /\ lowParamsSet = FALSE
  /\ timers = <<>>

\* SbraWifiManager::DoCreateStation
InitStations == m_lastSnr = [st \in Peers |-> 0]

InitHistory ==
  /\ lastCall = NoCall
  /\ nAdapt = 0
  /\ nFeedback = 0
  /\ fbDests = {}
  /\ firstGroupFrom = NoAddress
  /\ updatedAddrs = {}
  /\ sinceFeedback = 0
  /\ lastOkSnr = [st \in Peers |-> 0]
  /\ nMinSnrAdded = 0
  /\ nTxAdded = 0

\* the rate adaptation engine under every configuration, fed by the feedback
\* frames its MAC receives
Init ==
  /\ InitManager /\ InitStations /\ InitMac /\ InitHistory
  /\ \E c \in Configs : m_type = c[1] /\ m_per = c[2] /\ phyCurve = c[3]
  /\ m_qosSupported = FALSE

Next ==
  \/ DoGroupRateAdaptation
  \/ \E from \in Peers, fb \in FeedbackInfos : ReceiveFeedback(from, fb)

Spec == Init /\ [][Next]_vars

\* the MAC of a node under the default configuration of the engine
MacInit ==
  /\ InitManager /\ InitStations /\ InitMac /\ InitHistory
  /\ m_type = 0
  /\ m_per = DefaultPer
  /\ phyCurve = 1
  /\ m_qosSupported \in QosValues

MacNext ==
  \/ \E to \in Peers, tid \in TidValues : Enqueue(to, tid)
  \/ \E from \in Peers, toGroup \in BOOLEAN : ReceiveData(from, toGroup)
  \/ \E from \in Peers : ReceiveAmsdu(from)
  \/ \E fb \in FeedbackInfos : ReceiveFeedback(FeedbackPeer, fb)
  \/ \E len \in ShortLengths : ReceiveShortFeedback(FeedbackPeer, len)
  \/ SendFeedback
  \/ Tick

MacSpec == MacInit /\ [][MacNext]_vars

\* the engine as the station manager of its MAC: the reports of the frame
\* exchanges with each peer, the mode selection for each transmission, the
\* feedback frames of one peer and the recomputations of the group mode, over
\* the PHY whose delivery probabilities and thresholds are not monotone in
\* the data rate
StaInit ==
  /\ InitManager /\ InitStations /\ InitMac /\ InitHistory
  /\ m_type = 0
  /\ m_per = DefaultPer
  /\ phyCurve = 2
  /\ m_qosSupported = FALSE

StaNext ==
  \/ \E st \in Peers, rxSnr \in StaSnrValues : DoReportRxOk(st, rxSnr)
  \/ \E st \in Peers : DoReportRtsFailed(st)
  \/ \E st \in Peers : DoReportDataFailed(st)
  \/ \E st \in Peers, ctsSnr \in StaSnrValues, rtsSnr \in StaSnrValues :
       DoReportRtsOk(st, ctsSnr, rtsSnr)
  \/ \E st \in Peers, ackSnr \in StaSnrValues, dataSnr \in StaSnrValues :
       DoReportDataOk(st, ackSnr, dataSnr)
  \/ \E st \in Peers : DoReportFinalRtsFailed(st)
  \/ \E st \in Peers : DoReportFinalDataFailed(st)
  \/ \E st \in Peers, supported \in SupportedSets : DoGetDataTxVector(st, supported)
  \/ \E st \in Peers : DoGetRtsTxVector(st)
  \/ DoGroupRateAdaptation
  \/ \E fb \in FeedbackInfos : ReceiveFeedback(FeedbackPeer, fb)

StaSpec == StaInit /\ [][StaNext]_vars

\* the simulator runs every event that is due and then advances the time
MacFairSpec == MacSpec /\ WF_vars(Tick) /\ WF_vars(SendFeedback)

(***************************************************************************)
(* Properties                                                              *)
(***************************************************************************)
JustAdapted == lastCall.op = "GroupRateAdaptation"
JustUpdated == lastCall.op = "UpdateInfo"

\* the linear SNR of the last recomputation with samples, against 1.0
LinearGtOne == FGt(m_minSnr, LinScale)
LinearLeOne == (~IsNaN(m_minSnr)) /\ m_minSnr <= LinScale

InfoAddrs == {m_infos[i].addr : i \in 1..Len(m_infos)}

\* C1: the mode a recomputation returns is one of the catalog (basic) modes,
\* whatever the samples and the configured adaptation type.
C1_ReturnedModeInCatalog ==
  JustAdapted => m_GroupTxMode \in Range(m_bssBasicRateSet)

\* C2 as claimed: a recomputation with at least one sample and a linear
\* minimum signal strength <= 1.0 leaves selectedGroupMode as it was.
C2_LowSnrKeepsGroupMode ==
  [][(DoGroupRateAdaptation /\ Len(m_infos) > 0
        /\ (~IsNaN(m_minSnr')) /\ m_minSnr' <= LinScale)
      => m_GroupTxMode' = m_GroupTxMode]_vars

\* C2 as amended: a recomputation with at least one sample and a linear
\* minimum signal strength <= 1.0 sets selectedGroupMode to catalog mode
\* index 0, whatever it was before.
C2_LowSnrSelectsModeZero ==
  (JustAdapted /\ Len(m_infos) > 0 /\ LinearLeOne)
    => m_GroupTxMode = m_bssBasicRateSet[1]

\* a low-SNR recomputation that follows a type-0 recomputation which had
\* selected a mode above 6 Mb/s
C2_Witness ==
  /\ JustAdapted /\ Len(m_infos) > 0 /\ LinearLeOne
  /\ nAdapt = 2 /\ m_num = 1 /\ m_sum_tx_mode > 6
  /\ m_GroupTxMode = m_bssBasicRateSet[1]

\* C3: after an updateInfo call the stored sample of the peer is the sample
\* that call passed in, also when it was the first call for the peer.
C3_StoredIsLastSample ==
  JustUpdated =>
    \A i \in 1..Len(m_infos) :
      m_infos[i].addr = lastCall.addr => m_infos[i].info = lastCall.info

\* C4: updateInfo (peer, sample) called twice in a row: the second call
\* leaves the sample collection as the first call left it.
C4_UpdateInfoIdempotent ==
  [][\A a \in Peers, fb \in FeedbackInfos :
       (JustUpdated /\ lastCall.addr = a /\ lastCall.info = fb /\ ReceiveFeedback(a, fb))
         => m_infos' = m_infos]_vars

\* C5: the sample collection holds exactly one entry per distinct address
\* ever passed to updateInfo: no address twice, none removed, one more entry
\* only for a new address.
C5_OneEntryPerAddress ==
  /\ InfoAddrs = updatedAddrs
  /\ Len(m_infos) = Cardinality(updatedAddrs)

\* the address of the first entry was updated again after a second address
\* had been added
C5_Witness ==
  /\ Len(m_infos) = 2
  /\ JustUpdated /\ lastCall.addr = m_infos[1].addr

\* the recomputation that just ran took the type-0 / type-1 branch
Type0Case == JustAdapted /\ Len(m_infos) > 0 /\ LinearGtOne /\ m_type = 0
Type1Case == JustAdapted /\ Len(m_infos) > 0 /\ LinearGtOne /\ m_type = 1

CatalogIndexes == 1..Len(m_bssBasicRateSet)

\* loss probability (per mille) of the k-th catalog mode for the type-0 test
\* frame at the linear SNR of the last recomputation
Loss(k) ==
  PdrScale - CalculatePdr(phyCurve, m_bssBasicRateSet[k], m_minSnr, NBits(m_bssBasicRateSet[k]))

\* the catalog indexes whose loss probability is strictly below perThreshold
Qualifying == {k \in CatalogIndexes : Loss(k) < m_per}

\* the earliest index of smallest loss probability among the qualifying ones
FirstSmallestLoss ==
  CHOOSE k \in Qualifying :
    \A j \in Qualifying : Loss(k) < Loss(j) \/ (Loss(k) = Loss(j) /\ k <= j)

LastQualifying == CHOOSE k \in Qualifying : \A j \in Qualifying : j <= k

\* C6 as claimed: type 0 selects the catalog mode of smallest loss probability
\* among those strictly below perThreshold, the earliest among equals.
C6_Type0SelectsSmallestLoss ==
  (Type0Case /\ Qualifying # {}) => m_GroupTxMode = m_bssBasicRateSet[FirstSmallestLoss]

\* C6 as amended: type 0 selects the last catalog mode, in registration
\* order, whose loss probability is strictly below perThreshold (every later
\* qualifying candidate replaces the current one); if that mode's loss
\* probability is exactly 1, catalog mode index 0 is selected.
C6_Type0SelectsLastQualifying ==
  (Type0Case /\ Qualifying # {}) =>
    m_GroupTxMode = IF Loss(LastQualifying) = PdrScale
                    THEN m_bssBasicRateSet[1]
                    ELSE m_bssBasicRateSet[LastQualifying]

\* the selected mode is the last qualifying one although an earlier
\* qualifying mode has a strictly smaller loss probability
C6_Witness ==
  /\ Type0Case /\ Qualifying # {}
  /\ m_GroupTxMode = m_bssBasicRateSet[LastQualifying]
  /\ \E j \in Qualifying : Loss(j) < Loss(LastQualifying)

\* expected throughput of the k-th catalog mode: delivery probability (per
\* mille) of the 1086-byte test frame times the data rate in Mb/s
Throughput(k) ==
  CalculatePdr(phyCurve, m_bssBasicRateSet[k], m_minSnr, TestFrameBits)
    * DataRateMbps(m_bssBasicRateSet[k])

BestIndexes == {k \in CatalogIndexes : \A j \in CatalogIndexes : Throughput(j) <= Throughput(k)}

FirstBest == CHOOSE k \in BestIndexes : \A j \in BestIndexes : k <= j

\* C7: type 1 selects the first catalog mode, in registration order, whose
\* expected throughput is the maximum over the catalog; catalog mode index 0
\* if that maximum is zero.
C7_Type1SelectsFirstBest ==
  Type1Case =>
    m_GroupTxMode = IF Throughput(FirstBest) = 0
                    THEN m_bssBasicRateSet[1]
                    ELSE m_bssBasicRateSet[FirstBest]

\* several modes share a positive maximum and the first of them, which is not
\* index 0, is the selected one
C7_Witness ==
  /\ Type1Case
  /\ Throughput(FirstBest) > 0 /\ Cardinality(BestIndexes) > 1 /\ FirstBest > 1
  /\ m_GroupTxMode = m_bssBasicRateSet[FirstBest]

\* C8: with an empty sample collection a recomputation returns catalog mode
\* index 0, for every algorithm type and after any number of recomputations.
C8_NoSamplesSelectsModeZero ==
  (JustAdapted /\ Len(m_infos) = 0) => m_GroupTxMode = m_bssBasicRateSet[1]

\* a second recomputation in a row on an empty collection
C8_Witness ==
  /\ JustAdapted /\ Len(m_infos) = 0 /\ nAdapt = 2
  /\ m_GroupTxMode = m_bssBasicRateSet[1]

\* C9: type 0 with no catalog mode strictly below perThreshold returns
\* catalog mode index 0, not the mode an earlier recomputation selected.
C9_Type0NoCandidateSelectsModeZero ==
  (Type0Case /\ Qualifying = {}) => m_GroupTxMode = m_bssBasicRateSet[1]

\* no mode qualifies now, and the type-0 recomputation before this one had
\* selected a mode above 6 Mb/s
C9_Witness ==
  /\ Type0Case /\ Qualifying = {}
  /\ nAdapt = 2 /\ m_num = 2 /\ m_sum_tx_mode > 2 * DataRateMbps(m_bssBasicRateSet[1])
  /\ m_GroupTxMode = m_bssBasicRateSet[1]

\* C10: the first reception of a group-addressed data frame captures its
\* sender as the feedback destination and sends the first feedback message,
\* which arms the feedback timer, whether or not the node enqueued packets
\* before.
C10_FirstGroupRxStartsFeedback ==
  firstGroupFrom # NoAddress =>
    /\ m_srcAddress = firstGroupFrom
    /\ nFeedback >= 1 /\ firstGroupFrom \in fbDests
    /\ Len(timers) >= 1

\* feedback has started at the node: a feedback message was queued
FeedbackStarted == nFeedback >= 1

\* C11: once feedback has started, every firing of SendFeedback happens
\* exactly one feedbackPeriod after the previous feedback message was queued,
\* queues one feedback message and replaces the timer that fired by one timer
\* for feedbackPeriod later; a feedback message is queued again and again
\* without end.
C11_PeriodicFeedback ==
  /\ [][SendFeedback =>
         /\ sinceFeedback = FeedbackPeriod
         /\ lastCall'.queue = "dca" /\ sinceFeedback' = 0
         /\ Len(timers') = Len(timers)
         /\ timers'[Len(timers')] = FeedbackPeriod]_vars
  /\ (FeedbackStarted /\ sinceFeedback = 0) ~> (sinceFeedback > 0)
  /\ (FeedbackStarted /\ sinceFeedback > 0) ~> (sinceFeedback = 0)

\* the timer fired at least once after the first feedback message, and the
\* message of the latest firing has just been queued
C11_Witness ==
  /\ nFeedback >= 2 /\ lastCall.op = "SendFeedback" /\ lastCall.queue = "dca"
  /\ sinceFeedback = 0 /\ timers = <<FeedbackPeriod>>

\* C12: at every moment at most one SendFeedback event is pending, whatever
\* frames the node received, packets it enqueued and timers that fired.
C12_AtMostOneTimer == Len(timers) <= 1

\* a group-addressed frame arrives while the timer of a running feedback
\* chain is pending, and no second timer is scheduled
C12_Witness ==
  /\ lastCall.op = "ReceiveGroup" /\ lastCall.queue = "none"
  /\ nFeedback >= 2 /\ Len(timers) = 1 /\ timers[1] < FeedbackPeriod

\* C13: once a feedback destination is captured it never changes, and every
\* feedback message the node queued is addressed to it.
C13_DestinationFixed ==
  /\ [](fbDests # {} => (m_srcAddress # NoAddress /\ fbDests = {m_srcAddress}))
  /\ [][m_srcAddress # NoAddress => m_srcAddress' = m_srcAddress]_vars

\* a group-addressed frame of another sender arrives after the capture and
\* the destination is still the sender of the first one
C13_Witness ==
  /\ lastCall.op = "ReceiveGroup" /\ lastCall.addr # m_srcAddress
  /\ m_srcAddress # NoAddress /\ m_srcAddress = firstGroupFrom
  /\ fbDests = {m_srcAddress}

\* C14: after any sequence of reports, mode selections, feedback frames and
\* recomputations, the lastSnr of every station is the SNR of the data or RTS
\* frame of the last success report (DoReportRtsOk, DoReportDataOk) for that
\* station, 0.0 if there was none: no other handler changes it.
C14_LastSnrIsLastSuccess == \A st \in Peers : m_lastSnr[st] = lastOkSnr[st]

\* a final failure is reported for a station that has a success report, after
\* a feedback frame and a recomputation, while another station holds another
\* SNR
C14_Witness ==
  /\ lastCall.op = "DoReportFinalDataFailed" /\ m_lastSnr[lastCall.addr] = 1000
  /\ \E st \in Peers : m_lastSnr[st] = 110
  /\ nAdapt >= 1 /\ Len(m_infos) >= 1

\* the mode selection that just ran, the modes it scanned, the lastSnr of its
\* station
DataTxCase == lastCall.op = "DoGetDataTxVector"
RtsTxCase == lastCall.op = "DoGetRtsTxVector"
ScannedIndexes == 1..Len(lastCall.scanned)
StationSnr == m_lastSnr[lastCall.addr]

\* expected throughput of the i-th scanned mode at the station's lastSnr
StaThroughput(i) ==
  CalculatePdr(phyCurve, lastCall.scanned[i], StationSnr, TestFrameBits)
    * DataRateMbps(lastCall.scanned[i])

StaBest == {i \in ScannedIndexes : \A j \in ScannedIndexes : StaThroughput(j) <= StaThroughput(i)}

BelowLastSnr ==
  {i \in ScannedIndexes : GetSnrThreshold(phyCurve, lastCall.scanned[i]) < StationSnr}

\* C16: RTS selection returns a basic mode whose SNR threshold is strictly
\* below the station's lastSnr and is the highest of the thresholds strictly
\* below it; the default mode if no basic mode has such a threshold.
C16_RtsModeIsHighestBelow ==
  RtsTxCase =>
    IF BelowLastSnr = {} THEN lastCall.mode = DefaultMode
    ELSE /\ lastCall.mode \in {lastCall.scanned[i] : i \in BelowLastSnr}
         /\ \A j \in BelowLastSnr :
              GetSnrThreshold(phyCurve, lastCall.scanned[j])
                <= GetSnrThreshold(phyCurve, lastCall.mode)

\* a basic mode has exactly the station's lastSnr as its threshold and a mode
\* of lower threshold is returned
C16_Witness ==
  /\ RtsTxCase /\ BelowLastSnr # {}
  /\ \E i \in ScannedIndexes : GetSnrThreshold(phyCurve, lastCall.scanned[i]) = StationSnr
  /\ lastCall.mode # DefaultMode
  /\ GetSnrThreshold(phyCurve, lastCall.mode) < StationSnr

\* C17: the reception of a feedback frame whose payload is shorter than the
\* 24-byte feedback layout leaves the sample collection, the group state and
\* the running statistics as they were.
C17_ShortFeedbackChangesNothing ==
  [][(\E from \in Peers, len \in ShortLengths : ReceiveShortFeedback(from, len))
       => UNCHANGED managerVars]_vars

\* C18: after any sequence of recomputations the number of minimum signal
\* strengths added to sumMinSnr, the number of data rates and code indexes
\* added to their sums, and sampleCount are the same number.
C18_StatisticsCoverSameDecisions ==
  nMinSnrAdded = m_num /\ nTxAdded = m_num

\* the code index GroupRateAdaptation derives from a data rate (6 Mb/s -> 0,
\* ..., 54 Mb/s -> 7)
CodeIndexOf(mode) ==
  CHOOSE k \in 0..7 : <<6, 9, 12, 18, 24, 36, 48, 54>>[k + 1] = DataRateMbps(mode)

\* C19: after every recomputation that follows an earlier one, in every
\* branch, selectedGroupCodeIndex is the code index of selectedGroupMode.
C19_CodeIndexMatchesMode ==
  (JustAdapted /\ nAdapt >= 2) =>
    (m_GroupTxMode \in OfdmModes /\ m_GroupTxMcs = CodeIndexOf(m_GroupTxMode))

\* C20: every reception of a feedback frame runs, after its updateInfo call
\* and within the same event, one recomputation of the group mode.
C20_FeedbackTriggersRecomputation ==
  [][(\E from \in Peers, fb \in FeedbackInfos : ReceiveFeedback(from, fb))
       => nAdapt' = nAdapt + 1]_vars

\* C21: Enqueue on a QoS station queues a packet tagged with a TID in 0..7 on
\* the access category of that TID, with that TID in the header, and a packet
\* whose TID is above 7 on the access category of TID 0; the TID it queues is
\* below 8.
C21_TidRevertedOnlyAboveSeven ==
  [][\A to \in Peers, tid \in TidValues :
       (m_qosSupported /\ Enqueue(to, tid)) =>
         /\ lastCall'.tid = (IF tid > 7 THEN 0 ELSE tid)
         /\ lastCall'.queue = QosUtilsMapTidToAc(IF tid > 7 THEN 0 ELSE tid)
         /\ lastCall'.tid < 8]_vars

====
